---- MODULE Spec2Model ----
(***************************************************************************)
(* The Product contract (ERC721 + AccessControl): product registration,    *)
(* ownership transfer with automatic warranty activation, warranty claims, *)
(* claim processing, service recording and the view functions.             *)
(*                                                                         *)
(* Every external function is one action: the call that commits.  For     *)
(* each function an operator <name>Err gives, for any caller and arguments *)
(* in the current state, the error the call reverts with, or "OK"; the     *)
(* action is enabled exactly when it is "OK".  A call that reverts leaves  *)
(* no trace (the EVM rolls the whole transaction back), so it is no step.  *)
(* `last` is the most recent committed call with its return value.         *)
(*                                                                         *)
(* Scaling: the uint64 fields wrap at TimeMod instead of 2^64, so that the *)
(* narrowing cast of _activateWarranty is exercised within TLC's integers. *)
(* block.timestamp itself stays below TimeMod, as a real timestamp stays   *)
(* below 2^64.                                                             *)
(*                                                                         *)
(* The client's useTransaction hook is a second state machine on its own   *)
(* variables (SpecTransaction): execute runs to its await in one step, and *)
(* the continuation after the awaited operation settles runs in another.   *)
(***************************************************************************)
EXTENDS Naturals, Sequences, FiniteSets, TLC

\* ---------------------------------------------------------------- bounds
\* Number of committed transactions explored.
MaxTx == 5
\* Largest block.timestamp explored.
MaxTime == 2
\* The modulus of the uint64 fields in the model (2^64 in the contract).
TimeMod == 6
\* Number of execute calls made on one useTransaction hook.
MaxCalls == 3

\* ---------------------------------------------------------------- inputs
\* address(0)
ZeroAddress == 0
\* Externally owned accounts; account 1 deploys the contract and holds every
\* role (SERVICE_CENTER_ROLE until revoked), account 2 is a customer unless
\* RETAILER_ROLE is granted to it.
Accounts == {1, 2}
Addresses == {ZeroAddress} \cup Accounts
Deployer == CHOOSE a \in Accounts : \A b \in Accounts : a <= b

DEFAULT_ADMIN_ROLE == "DEFAULT_ADMIN_ROLE"
MANUFACTURER_ROLE == "MANUFACTURER_ROLE"
RETAILER_ROLE == "RETAILER_ROLE"
SERVICE_CENTER_ROLE == "SERVICE_CENTER_ROLE"
Roles == {DEFAULT_ADMIN_ROLE, MANUFACTURER_ROLE, RETAILER_ROLE, SERVICE_CENTER_ROLE}

\* Strings given as calldata; "" is the empty string.
Serials == {"", "SN-A", "SN-B"}
Models == {"M1"}
Descriptions == {"", "broken"}
Notes == {"", "fixed", "replaced"}
\* (uint64 warrantyDurationInSeconds, uint32 claimLimit) of the products
\* registered: a short warranty with two claims, one that ends in the block
\* it starts in and allows no claim at all, and the longest duration a
\* uint64 holds.
Warranties == {<<1, 2>>, <<0, 0>>, <<TimeMod - 1, 2>>}

\* Ids the calls are made with: every id that can be allocated, 0, and one
\* id that is never allocated.
MaxTokens == Cardinality(Serials \ {""})
TokenIds == 0 .. (MaxTokens + 1)
\* Each product takes at most the largest claim limit.
MaxClaims == MaxTokens * 2
ClaimIds == 0 .. (MaxClaims + 1)

\* keccak256(bytes(s)): a digest, injective on the strings used.
keccak256(s) == <<"keccak256", s>>
SerialHashes == {keccak256(s) : s \in Serials}

\* The execute calls of one hook, numbered in the order they are made.
CallIds == 1 .. MaxCalls
\* What the awaited operation resolves with.
TxResults == {[success |-> TRUE, error |-> ""],
              [success |-> FALSE, error |-> ""],
              [success |-> FALSE, error |-> "ClaimLimitReached"]}
\* What the awaited operation throws: the fields parseBlockchainError reads.
\* keywords are the substrings it looks for that the message includes.
Thrown == {[code |-> 4001, message |-> "rejected", keywords |-> {}],
           [code |-> 0, message |-> "execution reverted", keywords |-> {"execution reverted"}],
           [code |-> 0, message |-> "timeout", keywords |-> {}]}

VARIABLES
    roles,                \* AccessControl: role -> set of accounts holding it
    tokenIdCounter,       \* _tokenIdCounter
    claimIdCounter,       \* _claimIdCounter
    tokenIdForSerialHash, \* mapping(bytes32 => uint256)
    productDetails,       \* mapping(uint256 => ProductDetails)
    warrantyClaims,       \* mapping(uint256 => WarrantyClaim)
    owners,               \* ERC721 _owners: tokenId -> address
    log,                  \* events emitted so far, in order
    txCount,              \* transactions committed so far
    now,                  \* block.timestamp
    last,                 \* receipt of the most recent call
    isProcessing,         \* useTransaction: useState(false)
    result,               \* useTransaction: <<>> for null, <<txResult>> otherwise
    error,                \* useTransaction: <<>> for null, <<message>> otherwise
    calls                 \* the execute calls of the hook: position and callback

ledger == <<roles, tokenIdCounter, claimIdCounter, tokenIdForSerialHash,
            productDetails, warrantyClaims, owners, log>>
client == <<isProcessing, result, error, calls>>
vars == <<roles, tokenIdCounter, claimIdCounter, tokenIdForSerialHash,
          productDetails, warrantyClaims, owners, log, txCount, now, last,
          isProcessing, result, error, calls>>

\* The value a mapping holds for a key never written.
EmptyProduct ==
    [serialNumber |-> "", model |-> "", manufacturer |-> ZeroAddress,
     manufactureTimestamp |-> 0, warrantyDuration |-> 0, warrantyStart |-> 0,
     warrantyExpiration |-> 0, warrantyClaimLimit |-> 0, warrantyClaimCount |-> 0]

EmptyClaim ==
    [tokenId |-> 0, customer |-> ZeroAddress, issueDescription |-> "",
     submittedAt |-> 0, processed |-> FALSE, approved |-> FALSE,
     serviceNotes |-> "", processedAt |-> 0]

\* uint64(x): the narrowing cast.
uint64(x) == x % TimeMod

\* hasRole with the administrative role standing for every role.
hasRole_OrAdmin(role, account) ==
    account \in roles[role] \/ account \in roles[DEFAULT_ADMIN_ROLE]

hasRole(role, account) == account \in roles[role]

_ownerOf(own, tokenId) == own[tokenId]

\* A committed call: the function, msg.sender, the arguments and the value
\* returned (0 when the function returns none).
Receipt(op, caller, args, ret) ==
    [op |-> op, caller |-> caller, args |-> args, ret |-> ret]

\* The transaction is mined: one more committed transaction.
Commit(op, caller, args, ret) ==
    /\ txCount < MaxTx
    /\ txCount' = txCount + 1
    /\ last' = Receipt(op, caller, args, ret)
    /\ UNCHANGED client

Init ==
    /\ roles = [r \in Roles |-> {Deployer}]
    /\ tokenIdCounter = 1
    /\ claimIdCounter = 1
    /\ tokenIdForSerialHash = [h \in SerialHashes |-> 0]
    /\ productDetails = [t \in TokenIds |-> EmptyProduct]
    /\ warrantyClaims = [c \in ClaimIds |-> EmptyClaim]
    /\ owners = [t \in TokenIds |-> ZeroAddress]
    /\ log = <<>>
    /\ txCount = 0
    /\ now = 1
    /\ last = Receipt("constructor", Deployer, <<>>, 0)
    /\ isProcessing = FALSE
    /\ result = <<>>
    /\ error = <<>>
    /\ calls = [c \in CallIds |-> [pc |-> "idle", notified |-> "none"]]

\* ------------------------------------------------- ownership and warranty
\* _activateWarranty writing the expiration into warrantyDuration as well.
_activateWarranty_DurationOverwritten(pd, tokenId, customer) ==
    IF pd[tokenId].warrantyStart # 0
    THEN [err |-> "WarrantyAlreadyActivated", pd |-> pd, ev |-> <<>>]
    ELSE LET start == uint64(now)
             expiration == uint64(now + pd[tokenId].warrantyDuration)
         IN [err |-> "OK",
             pd |-> [pd EXCEPT ![tokenId].warrantyStart = start,
                               ![tokenId].warrantyExpiration = expiration,
                               ![tokenId].warrantyDuration = expiration],
             ev |-> << [type |-> "WarrantyActivated", tokenId |-> tokenId,
                        customer |-> customer, startTime |-> start,
                        expirationTime |-> expiration] >>]

\* _activateWarranty(tokenId, customer) on the product table pd.
_activateWarranty(pd, tokenId, customer) ==
    IF pd[tokenId].warrantyStart # 0
    THEN [err |-> "WarrantyAlreadyActivated", pd |-> pd, ev |-> <<>>]
    ELSE LET start == uint64(now)
             expiration == uint64(now + pd[tokenId].warrantyDuration)
         IN [err |-> "OK",
             pd |-> [pd EXCEPT ![tokenId].warrantyStart = start,
                               ![tokenId].warrantyExpiration = expiration],
             ev |-> << [type |-> "WarrantyActivated", tokenId |-> tokenId,
                        customer |-> customer, startTime |-> start,
                        expirationTime |-> expiration] >>]

\* ERC721._update(to, tokenId, auth), the base implementation called through
\* super: authorization of auth (owner only; approvals are not modelled) and
\* the ownership write.  The log holds the events the Product contract
\* declares; the inherited Transfer event is not recorded in it.
ERC721_update(own, to, tokenId, auth) ==
    LET from == _ownerOf(own, tokenId) IN
    IF auth # ZeroAddress /\ from = ZeroAddress
    THEN [err |-> "ERC721NonexistentToken", own |-> own, ev |-> <<>>, previousOwner |-> from]
    ELSE IF auth # ZeroAddress /\ auth # from
    THEN [err |-> "ERC721InsufficientApproval", own |-> own, ev |-> <<>>, previousOwner |-> from]
    ELSE [err |-> "OK", own |-> [own EXCEPT ![tokenId] = to],
          ev |-> <<>>,
          previousOwner |-> from]

\* The override without the warrantyStart == 0 conjunct of its condition.
_update_AlwaysActivate(own, pd, to, tokenId, auth) ==
    LET from == _ownerOf(own, tokenId)
        base == ERC721_update(own, to, tokenId, auth)
    IN  IF base.err # "OK"
        THEN [err |-> base.err, own |-> own, pd |-> pd, ev |-> <<>>, previousOwner |-> from]
        ELSE IF /\ from # ZeroAddress
                /\ hasRole(RETAILER_ROLE, from)
                /\ ~hasRole(RETAILER_ROLE, to)
                /\ to # ZeroAddress
        THEN LET act == _activateWarranty(pd, tokenId, to) IN
             [err |-> act.err, own |-> base.own, pd |-> act.pd,
              ev |-> base.ev \o act.ev, previousOwner |-> base.previousOwner]
        ELSE [err |-> "OK", own |-> base.own, pd |-> pd, ev |-> base.ev,
              previousOwner |-> base.previousOwner]

\* The override activating on every sale by a retailer, again if the
\* warranty was activated before.
_update_Reactivate(own, pd, to, tokenId, auth) ==
    LET from == _ownerOf(own, tokenId)
        base == ERC721_update(own, to, tokenId, auth)
    IN  IF base.err # "OK"
        THEN [err |-> base.err, own |-> own, pd |-> pd, ev |-> <<>>, previousOwner |-> from]
        ELSE IF /\ from # ZeroAddress
                /\ hasRole(RETAILER_ROLE, from)
                /\ ~hasRole(RETAILER_ROLE, to)
                /\ to # ZeroAddress
        THEN LET act == _activateWarranty([pd EXCEPT ![tokenId].warrantyStart = 0],
                                          tokenId, to) IN
             [err |-> act.err, own |-> base.own, pd |-> act.pd,
              ev |-> base.ev \o act.ev, previousOwner |-> base.previousOwner]
        ELSE [err |-> "OK", own |-> base.own, pd |-> pd, ev |-> base.ev,
              previousOwner |-> base.previousOwner]

\* The override activating whenever a retailer hands the product on, to
\* another retailer too.
_update_AnyRecipient(own, pd, to, tokenId, auth) ==
    LET from == _ownerOf(own, tokenId)
        base == ERC721_update(own, to, tokenId, auth)
    IN  IF base.err # "OK"
        THEN [err |-> base.err, own |-> own, pd |-> pd, ev |-> <<>>, previousOwner |-> from]
        ELSE IF /\ from # ZeroAddress
                /\ hasRole(RETAILER_ROLE, from)
                /\ to # ZeroAddress
                /\ pd[tokenId].warrantyStart = 0
        THEN LET act == _activateWarranty(pd, tokenId, to) IN
             [err |-> act.err, own |-> base.own, pd |-> act.pd,
              ev |-> base.ev \o act.ev, previousOwner |-> base.previousOwner]
        ELSE [err |-> "OK", own |-> base.own, pd |-> pd, ev |-> base.ev,
              previousOwner |-> base.previousOwner]

\* Product._update(to, tokenId, auth): the override.
_update(own, pd, to, tokenId, auth) ==
    LET from == _ownerOf(own, tokenId)
        base == ERC721_update(own, to, tokenId, auth)
    IN  IF base.err # "OK"
        THEN [err |-> base.err, own |-> own, pd |-> pd, ev |-> <<>>, previousOwner |-> from]
        ELSE IF /\ from # ZeroAddress
                /\ hasRole(RETAILER_ROLE, from)
                /\ ~hasRole(RETAILER_ROLE, to)
                /\ to # ZeroAddress
                /\ pd[tokenId].warrantyStart = 0
        THEN LET act == _activateWarranty(pd, tokenId, to) IN
             [err |-> act.err, own |-> base.own, pd |-> act.pd,
              ev |-> base.ev \o act.ev, previousOwner |-> base.previousOwner]
        ELSE [err |-> "OK", own |-> base.own, pd |-> pd, ev |-> base.ev,
              previousOwner |-> base.previousOwner]

\* ------------------------------------------------------------ registration
\* A counter that hands out its value and then grows by one.
PreIncrement(counter) == [value |-> counter + 1, next |-> counter + 1]

\* counter++ : the value before the increment, and the counter after it.
PostIncrement(counter) == [value |-> counter, next |-> counter + 1]

\* The record stored with the warranty started at registration.
NewProduct_Started(caller, serialNumber, model, warrantyDurationInSeconds, claimLimit) ==
    [serialNumber |-> serialNumber, model |-> model, manufacturer |-> caller,
     manufactureTimestamp |-> uint64(now),
     warrantyDuration |-> warrantyDurationInSeconds,
     warrantyStart |-> uint64(now), warrantyExpiration |-> 0,
     warrantyClaimLimit |-> claimLimit, warrantyClaimCount |-> 0]

\* registerProduct's new record, as the struct literal of the code.
NewProduct(caller, serialNumber, model, warrantyDurationInSeconds, claimLimit) ==
    [serialNumber |-> serialNumber, model |-> model, manufacturer |-> caller,
     manufactureTimestamp |-> uint64(now),
     warrantyDuration |-> warrantyDurationInSeconds,
     warrantyStart |-> 0, warrantyExpiration |-> 0,
     warrantyClaimLimit |-> claimLimit, warrantyClaimCount |-> 0]

\* _safeMint(to, tokenId) after the record is stored: _update with
\* auth = address(0), then the check that the token did not exist.
_safeMint(own, pd, to, tokenId) ==
    LET u == _update(own, pd, to, tokenId, ZeroAddress) IN
    IF to = ZeroAddress THEN [u EXCEPT !.err = "ERC721InvalidReceiver"]
    ELSE IF u.err = "OK" /\ u.previousOwner # ZeroAddress
    THEN [u EXCEPT !.err = "ERC721InvalidSender"]
    ELSE u

\* The modifier and the checks of registerProduct, in the order of the code.
\* registerProduct's checks with the retailer check before the zero-address
\* check.
registerProductErr_RetailerFirst(caller, initialOwner, serialNumber) ==
    IF ~hasRole(MANUFACTURER_ROLE, caller) THEN "AccessControlUnauthorizedAccount"
    ELSE IF serialNumber = "" THEN "SerialNumberEmpty"
    ELSE IF tokenIdForSerialHash[keccak256(serialNumber)] # 0 THEN "SerialNumberExists"
    ELSE IF ~hasRole(RETAILER_ROLE, initialOwner) THEN "NotRetailer"
    ELSE IF initialOwner = ZeroAddress THEN "ZeroAddress"
    ELSE _safeMint(owners, productDetails, initialOwner, tokenIdCounter).err

\* registerProduct's checks without the empty-serial check.
registerProductErr_EmptySerialAccepted(caller, initialOwner, serialNumber) ==
    IF ~hasRole(MANUFACTURER_ROLE, caller) THEN "AccessControlUnauthorizedAccount"
    ELSE IF tokenIdForSerialHash[keccak256(serialNumber)] # 0 THEN "SerialNumberExists"
    ELSE IF initialOwner = ZeroAddress THEN "ZeroAddress"
    ELSE IF ~hasRole(RETAILER_ROLE, initialOwner) THEN "NotRetailer"
    ELSE _safeMint(owners, productDetails, initialOwner, tokenIdCounter).err

\* registerProduct's checks with the initial owner validated before the
\* serial number.
registerProductErr_OwnerFirst(caller, initialOwner, serialNumber) ==
    IF ~hasRole(MANUFACTURER_ROLE, caller) THEN "AccessControlUnauthorizedAccount"
    ELSE IF initialOwner = ZeroAddress THEN "ZeroAddress"
    ELSE IF ~hasRole(RETAILER_ROLE, initialOwner) THEN "NotRetailer"
    ELSE IF serialNumber = "" THEN "SerialNumberEmpty"
    ELSE IF tokenIdForSerialHash[keccak256(serialNumber)] # 0 THEN "SerialNumberExists"
    ELSE "OK"

\* The checks of registerProduct without the NotRetailer check.
registerProductErr_AnyOwner(caller, initialOwner, serialNumber) ==
    IF ~hasRole(MANUFACTURER_ROLE, caller) THEN "AccessControlUnauthorizedAccount"
    ELSE IF serialNumber = "" THEN "SerialNumberEmpty"
    ELSE IF tokenIdForSerialHash[keccak256(serialNumber)] # 0 THEN "SerialNumberExists"
    ELSE IF initialOwner = ZeroAddress THEN "ZeroAddress"
    ELSE _safeMint(owners, productDetails, initialOwner, tokenIdCounter).err

registerProductErr(caller, initialOwner, serialNumber) ==
    IF ~hasRole(MANUFACTURER_ROLE, caller) THEN "AccessControlUnauthorizedAccount"
    ELSE IF serialNumber = "" THEN "SerialNumberEmpty"
    ELSE IF tokenIdForSerialHash[keccak256(serialNumber)] # 0 THEN "SerialNumberExists"
    ELSE IF initialOwner = ZeroAddress THEN "ZeroAddress"
    ELSE IF ~hasRole(RETAILER_ROLE, initialOwner) THEN "NotRetailer"
    ELSE _safeMint(owners, productDetails, initialOwner, tokenIdCounter).err

registerProduct(caller, initialOwner, serialNumber, model, warrantyDurationInSeconds, claimLimit) ==
    LET newItemId == PostIncrement(tokenIdCounter).value
        pd1 == [productDetails EXCEPT ![newItemId] =
                   NewProduct(caller, serialNumber, model,
                              warrantyDurationInSeconds, claimLimit)]
        mint == _safeMint(owners, pd1, initialOwner, newItemId)
        registered == [type |-> "ProductRegistered", tokenId |-> newItemId,
                       serialNumber |-> serialNumber, model |-> model,
                       manufacturer |-> caller, initialOwner |-> initialOwner,
                       timestamp |-> uint64(now),
                       warrantyDuration |-> warrantyDurationInSeconds,
                       claimLimit |-> claimLimit]
    IN  /\ registerProductErr(caller, initialOwner, serialNumber) = "OK"
        /\ tokenIdCounter' = PostIncrement(tokenIdCounter).next
        /\ productDetails' = mint.pd
        /\ tokenIdForSerialHash' =
               [tokenIdForSerialHash EXCEPT ![keccak256(serialNumber)] = newItemId]
        /\ owners' = mint.own
        /\ log' = log \o mint.ev \o <<registered>>
        /\ Commit("registerProduct", caller,
                           <<initialOwner, serialNumber, model,
                             warrantyDurationInSeconds, claimLimit>>, newItemId)
        /\ UNCHANGED <<roles, claimIdCounter, warrantyClaims, now>>

\* ---------------------------------------------------------------- transfer
\* transferFrom without the receiver check.
transferFromErr_AnyReceiver(caller, from, to, tokenId) ==
    LET u == _update(owners, productDetails, to, tokenId, caller)
    IN  IF u.err # "OK" THEN u.err
        ELSE IF u.previousOwner # from THEN "ERC721IncorrectOwner"
        ELSE "OK"

\* ERC721.transferFrom(from, to, tokenId) called by caller: the receiver
\* check, _update with auth = msg.sender, the check of the previous owner.
transferFromErr(caller, from, to, tokenId) ==
    LET u == _update(owners, productDetails, to, tokenId, caller) IN
    IF to = ZeroAddress THEN "ERC721InvalidReceiver"
    ELSE IF u.err # "OK" THEN u.err
    ELSE IF u.previousOwner # from THEN "ERC721IncorrectOwner"
    ELSE "OK"

transferFrom(caller, from, to, tokenId) ==
    LET u == _update(owners, productDetails, to, tokenId, caller) IN
    /\ transferFromErr(caller, from, to, tokenId) = "OK"
    /\ owners' = u.own
    /\ productDetails' = u.pd
    /\ log' = log \o u.ev
    /\ Commit("transferFrom", caller, <<from, to, tokenId>>, 0)
    /\ UNCHANGED <<roles, tokenIdCounter, claimIdCounter,
                   tokenIdForSerialHash, warrantyClaims, now>>

\* ------------------------------------------------------------------ claims
\* ownerOf(tokenId) and the checks of submitWarrantyClaim, in order.
\* submitWarrantyClaim's checks with the claim limit checked before the
\* expiration.
submitWarrantyClaimErr_LimitFirst(caller, tokenId, issueDescription) ==
    LET product == productDetails[tokenId] IN
    IF _ownerOf(owners, tokenId) = ZeroAddress THEN "ERC721NonexistentToken"
    ELSE IF _ownerOf(owners, tokenId) # caller THEN "NotOwner"
    ELSE IF product.warrantyStart = 0 THEN "WarrantyNotActivated"
    ELSE IF product.warrantyClaimCount >= product.warrantyClaimLimit THEN "ClaimLimitReached"
    ELSE IF now > product.warrantyExpiration THEN "WarrantyExpired"
    ELSE IF issueDescription = "" THEN "IssueDescriptionEmpty"
    ELSE "OK"

\* submitWarrantyClaim's checks with the limit compared by > .
submitWarrantyClaimErr_OffByOne(caller, tokenId, issueDescription) ==
    LET product == productDetails[tokenId] IN
    IF _ownerOf(owners, tokenId) = ZeroAddress THEN "ERC721NonexistentToken"
    ELSE IF _ownerOf(owners, tokenId) # caller THEN "NotOwner"
    ELSE IF product.warrantyStart = 0 THEN "WarrantyNotActivated"
    ELSE IF now > product.warrantyExpiration THEN "WarrantyExpired"
    ELSE IF product.warrantyClaimCount > product.warrantyClaimLimit THEN "ClaimLimitReached"
    ELSE IF issueDescription = "" THEN "IssueDescriptionEmpty"
    ELSE "OK"

submitWarrantyClaimErr(caller, tokenId, issueDescription) ==
    LET product == productDetails[tokenId] IN
    IF _ownerOf(owners, tokenId) = ZeroAddress THEN "ERC721NonexistentToken"
    ELSE IF _ownerOf(owners, tokenId) # caller THEN "NotOwner"
    ELSE IF product.warrantyStart = 0 THEN "WarrantyNotActivated"
    ELSE IF now > product.warrantyExpiration THEN "WarrantyExpired"
    ELSE IF product.warrantyClaimCount >= product.warrantyClaimLimit THEN "ClaimLimitReached"
    ELSE IF issueDescription = "" THEN "IssueDescriptionEmpty"
    ELSE "OK"

\* The claim stored with the decision time stamped at submission.
NewClaim_Stamped(tokenId, customer, issueDescription) ==
    [tokenId |-> tokenId, customer |-> customer,
     issueDescription |-> issueDescription,
     submittedAt |-> uint64(now), processed |-> FALSE,
     approved |-> FALSE, serviceNotes |-> "", processedAt |-> uint64(now)]

\* WarrantyClaim({...}) as submitWarrantyClaim stores it.
NewClaim(tokenId, customer, issueDescription) ==
    [tokenId |-> tokenId, customer |-> customer,
     issueDescription |-> issueDescription,
     submittedAt |-> uint64(now), processed |-> FALSE,
     approved |-> FALSE, serviceNotes |-> "", processedAt |-> 0]

\* submitWarrantyClaim without the increment of warrantyClaimCount.
submitWarrantyClaim_CountSkipped(caller, tokenId, issueDescription) ==
    LET newClaimId == PostIncrement(claimIdCounter).value IN
    /\ submitWarrantyClaimErr(caller, tokenId, issueDescription) = "OK"
    /\ productDetails' = productDetails
    /\ claimIdCounter' = PostIncrement(claimIdCounter).next
    /\ warrantyClaims' = [warrantyClaims EXCEPT ![newClaimId] =
           NewClaim(tokenId, _ownerOf(owners, tokenId), issueDescription)]
    /\ log' = Append(log,
           [type |-> "WarrantyClaimSubmitted", claimId |-> newClaimId,
            tokenId |-> tokenId, customer |-> _ownerOf(owners, tokenId),
            issueDescription |-> issueDescription, submittedAt |-> uint64(now)])
    /\ Commit("submitWarrantyClaim", caller,
                       <<tokenId, issueDescription>>, newClaimId)
    /\ UNCHANGED <<roles, tokenIdCounter, tokenIdForSerialHash, owners, now>>

submitWarrantyClaim(caller, tokenId, issueDescription) ==
    LET newClaimId == PostIncrement(claimIdCounter).value IN
    /\ submitWarrantyClaimErr(caller, tokenId, issueDescription) = "OK"
    /\ productDetails' = [productDetails EXCEPT ![tokenId].warrantyClaimCount = @ + 1]
    /\ claimIdCounter' = PostIncrement(claimIdCounter).next
    /\ warrantyClaims' = [warrantyClaims EXCEPT ![newClaimId] =
           NewClaim(tokenId, _ownerOf(owners, tokenId), issueDescription)]
    /\ log' = Append(log,
           [type |-> "WarrantyClaimSubmitted", claimId |-> newClaimId,
            tokenId |-> tokenId, customer |-> _ownerOf(owners, tokenId),
            issueDescription |-> issueDescription, submittedAt |-> uint64(now)])
    /\ Commit("submitWarrantyClaim", caller,
                       <<tokenId, issueDescription>>, newClaimId)
    /\ UNCHANGED <<roles, tokenIdCounter, tokenIdForSerialHash, owners, now>>

\* processWarrantyClaim's checks without the already-processed check.
processWarrantyClaimErr_Amendable(caller, claimId) ==
    IF ~hasRole(SERVICE_CENTER_ROLE, caller) THEN "AccessControlUnauthorizedAccount"
    ELSE IF warrantyClaims[claimId].tokenId = 0 THEN "ClaimNotExist"
    ELSE "OK"

processWarrantyClaimErr(caller, claimId) ==
    IF ~hasRole(SERVICE_CENTER_ROLE, caller) THEN "AccessControlUnauthorizedAccount"
    ELSE IF warrantyClaims[claimId].tokenId = 0 THEN "ClaimNotExist"
    ELSE IF warrantyClaims[claimId].processed THEN "ClaimAlreadyProcessed"
    ELSE "OK"

\* processWarrantyClaim that also sets the claim's customer to the
\* product's owner at decision time.
processWarrantyClaim_CurrentOwner(caller, claimId, approved) ==
    /\ processWarrantyClaimErr(caller, claimId) = "OK"
    /\ warrantyClaims' = [warrantyClaims EXCEPT
           ![claimId].processed = TRUE,
           ![claimId].approved = approved,
           ![claimId].processedAt = uint64(now),
           ![claimId].customer = _ownerOf(owners, warrantyClaims[claimId].tokenId)]
    /\ log' = Append(log,
           [type |-> "WarrantyClaimProcessed", claimId |-> claimId,
            tokenId |-> warrantyClaims[claimId].tokenId,
            serviceCenter |-> caller, approved |-> approved,
            processedAt |-> uint64(now)])
    /\ Commit("processWarrantyClaim", caller, <<claimId, approved>>, 0)
    /\ UNCHANGED <<roles, tokenIdCounter, claimIdCounter,
                   tokenIdForSerialHash, productDetails, owners, now>>

processWarrantyClaim(caller, claimId, approved) ==
    /\ processWarrantyClaimErr(caller, claimId) = "OK"
    /\ warrantyClaims' = [warrantyClaims EXCEPT
           ![claimId].processed = TRUE,
           ![claimId].approved = approved,
           ![claimId].processedAt = uint64(now)]
    /\ log' = Append(log,
           [type |-> "WarrantyClaimProcessed", claimId |-> claimId,
            tokenId |-> warrantyClaims[claimId].tokenId,
            serviceCenter |-> caller, approved |-> approved,
            processedAt |-> uint64(now)])
    /\ Commit("processWarrantyClaim", caller, <<claimId, approved>>, 0)
    /\ UNCHANGED <<roles, tokenIdCounter, claimIdCounter,
                   tokenIdForSerialHash, productDetails, owners, now>>

\* recordService's checks requiring a processed claim only.
recordServiceErr_ProcessedOnly(caller, claimId, serviceNotes) ==
    LET claim == warrantyClaims[claimId] IN
    IF ~hasRole(SERVICE_CENTER_ROLE, caller) THEN "AccessControlUnauthorizedAccount"
    ELSE IF claim.tokenId = 0 THEN "ClaimNotExist"
    ELSE IF ~claim.processed THEN "ClaimNotApproved"
    ELSE IF claim.serviceNotes # "" THEN "ServiceAlreadyRecorded"
    ELSE IF serviceNotes = "" THEN "ServiceNotesEmpty"
    ELSE "OK"

\* recordService's checks with the empty-notes check before the
\* already-recorded check.
recordServiceErr_NotesFirst(caller, claimId, serviceNotes) ==
    LET claim == warrantyClaims[claimId] IN
    IF ~hasRole(SERVICE_CENTER_ROLE, caller) THEN "AccessControlUnauthorizedAccount"
    ELSE IF claim.tokenId = 0 THEN "ClaimNotExist"
    ELSE IF ~(claim.processed /\ claim.approved) THEN "ClaimNotApproved"
    ELSE IF serviceNotes = "" THEN "ServiceNotesEmpty"
    ELSE IF claim.serviceNotes # "" THEN "ServiceAlreadyRecorded"
    ELSE "OK"

recordServiceErr(caller, claimId, serviceNotes) ==
    LET claim == warrantyClaims[claimId] IN
    IF ~hasRole(SERVICE_CENTER_ROLE, caller) THEN "AccessControlUnauthorizedAccount"
    ELSE IF claim.tokenId = 0 THEN "ClaimNotExist"
    ELSE IF ~(claim.processed /\ claim.approved) THEN "ClaimNotApproved"
    ELSE IF claim.serviceNotes # "" THEN "ServiceAlreadyRecorded"
    ELSE IF serviceNotes = "" THEN "ServiceNotesEmpty"
    ELSE "OK"

recordService(caller, claimId, serviceNotes) ==
    /\ recordServiceErr(caller, claimId, serviceNotes) = "OK"
    /\ warrantyClaims' = [warrantyClaims EXCEPT ![claimId].serviceNotes = serviceNotes]
    /\ log' = Append(log,
           [type |-> "ServiceRecorded", tokenId |-> warrantyClaims[claimId].tokenId,
            claimId |-> claimId, serviceCenter |-> caller,
            serviceNotes |-> serviceNotes, serviceDate |-> uint64(now)])
    /\ Commit("recordService", caller, <<claimId, serviceNotes>>, 0)
    /\ UNCHANGED <<roles, tokenIdCounter, claimIdCounter,
                   tokenIdForSerialHash, productDetails, owners, now>>

\* ------------------------------------------------------------------- views
\* getProductDetails detecting absence by warrantyStart.
getProductDetails_ByWarrantyStart(tokenId) ==
    IF productDetails[tokenId].warrantyStart = 0
    THEN [err |-> "ProductNotRegistered", ret |-> EmptyProduct]
    ELSE [err |-> "OK", ret |-> productDetails[tokenId]]

getProductDetails(tokenId) ==
    IF productDetails[tokenId].manufactureTimestamp = 0
    THEN [err |-> "ProductNotRegistered", ret |-> EmptyProduct]
    ELSE [err |-> "OK", ret |-> productDetails[tokenId]]

getWarrantyClaim(claimId) ==
    IF warrantyClaims[claimId].tokenId = 0
    THEN [err |-> "ClaimNotExist", ret |-> EmptyClaim]
    ELSE [err |-> "OK", ret |-> warrantyClaims[claimId]]

\* isWarrantyActive without the claim-count conjunct.
isWarrantyActive_IgnoreCount(tokenId) ==
    IF productDetails[tokenId].manufactureTimestamp = 0
    THEN [err |-> "ProductNotRegistered", ret |-> FALSE]
    ELSE LET product == productDetails[tokenId] IN
         [err |-> "OK",
          ret |-> /\ product.warrantyStart > 0
                  /\ now <= product.warrantyExpiration]

\* isWarrantyActive with the expiration compared strictly.
isWarrantyActive_StrictExpiry(tokenId) ==
    IF productDetails[tokenId].manufactureTimestamp = 0
    THEN [err |-> "ProductNotRegistered", ret |-> FALSE]
    ELSE LET product == productDetails[tokenId] IN
         [err |-> "OK",
          ret |-> /\ product.warrantyStart > 0
                  /\ now < product.warrantyExpiration
                  /\ product.warrantyClaimCount < product.warrantyClaimLimit]

isWarrantyActive(tokenId) ==
    IF productDetails[tokenId].manufactureTimestamp = 0
    THEN [err |-> "ProductNotRegistered", ret |-> FALSE]
    ELSE LET product == productDetails[tokenId] IN
         [err |-> "OK",
          ret |-> /\ product.warrantyStart > 0
                  /\ now <= product.warrantyExpiration
                  /\ product.warrantyClaimCount < product.warrantyClaimLimit]

\* ------------------------------------------------------------------ client
\* The milliseconds of the client's clock within the second of the block.
Millis == {0, 999}

\* useWarranty(tokenId).checkWarranty(), called when the client's clock is
\* millis milliseconds into second `now`.  A falsy tokenId returns at once
\* and leaves isValid at its initial false; the record is the one the
\* ledger's getProductDetails returns, a revert of it is rethrown; the
\* dates are milliseconds, expDate = warrantyExpiration * 1000, and isValid
\* is expDate > new Date().
checkWarranty(tokenId, millis) ==
    IF tokenId = 0
    THEN [err |-> "NoTokenId", isValid |-> FALSE, expiration |-> 0]
    ELSE LET info == getProductDetails(tokenId) IN
         IF info.err # "OK"
         THEN [err |-> info.err, isValid |-> FALSE, expiration |-> 0]
         ELSE LET expDate == info.ret.warrantyExpiration * 1000
                  newDate == now * 1000 + millis
              IN [err |-> "OK", isValid |-> expDate > newDate,
                  expiration |-> expDate]

\* parseBlockchainError(error) for a thrown error object.
parseBlockchainError(err) ==
    IF err.code = 4001 THEN "User cancelled the transaction"
    ELSE IF "insufficient funds" \in err.keywords
         THEN "Insufficient balance to pay for gas fees"
    ELSE IF "execution reverted" \in err.keywords
         THEN "Contract execution failed"
    ELSE IF "network" \in err.keywords
         THEN "Network connection error, please check your network"
    ELSE IF "gas" \in err.keywords
         THEN "Gas fee estimation failed, please check transaction parameters"
    ELSE err.message

\* The execute calls whose awaited operation has not settled.
PendingCalls == {c \in CallIds : calls[c].pc = "pending"}

\* useTransaction().execute(operation, onSuccess, onError) up to its await:
\* the three setters, then operation() is started.  useWarrantyClaim's
\* submitClaim is this call with blockchainService.submitWarrantyClaim as
\* the operation.  Calls are numbered in the order they are made.
execute(c) ==
    /\ calls[c].pc = "idle"
    /\ \A d \in CallIds : d < c => calls[d].pc # "idle"
    /\ isProcessing' = TRUE
    /\ error' = <<>>
    /\ result' = <<>>
    /\ calls' = [calls EXCEPT ![c].pc = "pending"]
    /\ UNCHANGED <<ledger, txCount, now, last>>

\* execute's continuation when operation() resolves with txResult: the try
\* block and finally.  "transaction failed" stands for the default
\* message the code uses when txResult.error is empty.
executeResolved(c, txResult) ==
    /\ calls[c].pc = "pending"
    /\ result' = <<txResult>>
    /\ IF txResult.success
       THEN /\ error' = error
            /\ calls' = [calls EXCEPT ![c] = [pc |-> "returned", notified |-> "onSuccess"]]
       ELSE /\ error' = << IF txResult.error # "" THEN txResult.error
                           ELSE "transaction failed" >>
            /\ calls' = [calls EXCEPT ![c] = [pc |-> "returned", notified |-> "onError"]]
    /\ isProcessing' = FALSE
    /\ UNCHANGED <<ledger, txCount, now, last>>

\* execute's continuation when operation() throws err: catch (which
\* rethrows) and finally.
executeThrown(c, err) ==
    /\ calls[c].pc = "pending"
    /\ error' = <<parseBlockchainError(err)>>
    /\ calls' = [calls EXCEPT ![c] = [pc |-> "thrown", notified |-> "onError"]]
    /\ isProcessing' = FALSE
    /\ UNCHANGED <<ledger, txCount, now, last, result>>

\* useTransaction().reset().
reset ==
    /\ isProcessing' = FALSE
    /\ result' = <<>>
    /\ error' = <<>>
    /\ UNCHANGED <<ledger, txCount, now, last, calls>>

\* ------------------------------------------------------------------- roles
\* AccessControl.grantRole / revokeRole: every role's admin is
\* DEFAULT_ADMIN_ROLE.  Granting a role already held, or revoking one not
\* held, writes nothing and emits nothing: it is no step.
roleAdminErr(caller) ==
    IF ~hasRole(DEFAULT_ADMIN_ROLE, caller) THEN "AccessControlUnauthorizedAccount"
    ELSE "OK"

grantRole(caller, role, account) ==
    /\ roleAdminErr(caller) = "OK"
    /\ ~hasRole(role, account)
    /\ roles' = [roles EXCEPT ![role] = @ \cup {account}]
    /\ Commit("grantRole", caller, <<role, account>>, 0)
    /\ UNCHANGED <<tokenIdCounter, claimIdCounter, tokenIdForSerialHash,
                   productDetails, warrantyClaims, owners, log, now>>

revokeRole(caller, role, account) ==
    /\ roleAdminErr(caller) = "OK"
    /\ hasRole(role, account)
    /\ roles' = [roles EXCEPT ![role] = @ \ {account}]
    /\ Commit("revokeRole", caller, <<role, account>>, 0)
    /\ UNCHANGED <<tokenIdCounter, claimIdCounter, tokenIdForSerialHash,
                   productDetails, warrantyClaims, owners, log, now>>

\* -------------------------------------------------------------------- time
\* A later block: block.timestamp grows.
Tick ==
    /\ now < MaxTime
    /\ now' = now + 1
    /\ UNCHANGED <<ledger, txCount, last, client>>

\* ------------------------------------------------------------ specification
\* The role changes explored: account 2 becomes or stops being a retailer,
\* the deployer stops or becomes again a service center.
RoleChanges == {<<RETAILER_ROLE, 2>>, <<SERVICE_CENTER_ROLE, 1>>}

RegisterProduct ==
    \E caller \in Accounts, initialOwner \in Addresses, serialNumber \in Serials,
       model \in Models, w \in Warranties :
        registerProduct(caller, initialOwner, serialNumber, model, w[1], w[2])

TransferFrom ==
    \E caller \in Accounts, from \in Accounts, to \in Addresses, tokenId \in TokenIds :
        transferFrom(caller, from, to, tokenId)

SubmitWarrantyClaim ==
    \E caller \in Accounts, tokenId \in TokenIds, d \in Descriptions :
        submitWarrantyClaim(caller, tokenId, d)

ProcessWarrantyClaim ==
    \E caller \in Accounts, claimId \in ClaimIds, approved \in BOOLEAN :
        processWarrantyClaim(caller, claimId, approved)

RecordService ==
    \E caller \in Accounts, claimId \in ClaimIds, n \in Notes :
        recordService(caller, claimId, n)

GrantRole ==
    \E caller \in Accounts, rc \in RoleChanges :
        grantRole(caller, rc[1], rc[2])

RevokeRole ==
    \E caller \in Accounts, rc \in RoleChanges :
        revokeRole(caller, rc[1], rc[2])

Next ==
    \/ RegisterProduct
    \/ TransferFrom
    \/ SubmitWarrantyClaim
    \/ ProcessWarrantyClaim
    \/ RecordService
    \/ GrantRole
    \/ RevokeRole
    \/ Tick

Spec == Init /\ [][Next]_vars

\* ------------------------------------------- fixed retailers specification
\* The runs in which RETAILER_ROLE membership is settled before the first
\* registration: grantRole and revokeRole of RETAILER_ROLE are called only
\* while no product is registered, every other call is as in Spec.
GrantRoleFixedRetailers ==
    \E caller \in Accounts, rc \in RoleChanges :
        /\ rc[1] = RETAILER_ROLE => tokenIdCounter = 1
        /\ grantRole(caller, rc[1], rc[2])

RevokeRoleFixedRetailers ==
    \E caller \in Accounts, rc \in RoleChanges :
        /\ rc[1] = RETAILER_ROLE => tokenIdCounter = 1
        /\ revokeRole(caller, rc[1], rc[2])

NextFixedRetailers ==
    \/ RegisterProduct
    \/ TransferFrom
    \/ SubmitWarrantyClaim
    \/ ProcessWarrantyClaim
    \/ RecordService
    \/ GrantRoleFixedRetailers
    \/ RevokeRoleFixedRetailers
    \/ Tick

SpecFixedRetailers == Init /\ [][NextFixedRetailers]_vars

\* ------------------------------------------------ transaction hook specification
\* One useTransaction hook: execute is called up to MaxCalls times, each
\* awaited operation resolves or throws at any later time, reset is called
\* at any time.  The ledger is left as deployed.
Execute == \E c \in CallIds : execute(c)

OperationResolves == \E c \in CallIds, txResult \in TxResults : executeResolved(c, txResult)

OperationThrows == \E c \in CallIds, err \in Thrown : executeThrown(c, err)

Reset == reset

NextTransaction ==
    \/ Execute
    \/ OperationResolves
    \/ OperationThrows
    \/ Reset

SpecTransaction == Init /\ [][NextTransaction]_vars

\* ================================================================== claims
\* The step just taken is a committed call of op (Tick leaves last alone,
\* every committed call counts one transaction).
Committed(op) == txCount' # txCount /\ last'.op = op

\* Ids handed out so far.
RegisteredIds == 1 .. (tokenIdCounter - 1)
AllocatedClaimIds == 1 .. (claimIdCounter - 1)

Last(seq) == seq[Len(seq)]

FactsOf(type) == SelectSeq(log, LAMBDA e : e.type = type)

\* ---------------------------------------------------------------------- C1
\* C1 (as claimed): a committed transfer of a product whose warrantyStart is
\* 0, from a holder of RETAILER_ROLE to a non-null address that does not hold
\* it, makes the recipient the owner, sets warrantyStart to the current time
\* and warrantyExpiration to the current time + warrantyDuration, and appends
\* exactly one WarrantyActivated fact (id, recipient, start, expiration).
C1_ActivatingTransferStep ==
    Committed("transferFrom") =>
        LET from == last'.args[1]
            to == last'.args[2]
            tokenId == last'.args[3]
            product == productDetails[tokenId]
        IN  ( /\ product.warrantyStart = 0
              /\ hasRole(RETAILER_ROLE, from)
              /\ ~hasRole(RETAILER_ROLE, to)
              /\ to # ZeroAddress )
            => /\ owners'[tokenId] = to
               /\ productDetails'[tokenId].warrantyStart = now
               /\ productDetails'[tokenId].warrantyExpiration =
                      now + product.warrantyDuration
               /\ log' = Append(log,
                      [type |-> "WarrantyActivated", tokenId |-> tokenId,
                       customer |-> to, startTime |-> now,
                       expirationTime |-> now + product.warrantyDuration])

C1_ActivatingTransfer == [][C1_ActivatingTransferStep]_vars

C2_ResaleAccepted ==
    \A tokenId \in RegisteredIds, to \in Accounts :
        ( /\ productDetails[tokenId].warrantyStart # 0
          /\ hasRole(RETAILER_ROLE, owners[tokenId])
          /\ ~hasRole(RETAILER_ROLE, to) )
        => transferFromErr(owners[tokenId], owners[tokenId], to, tokenId) = "OK"

\* ... and when it commits it changes the owner and nothing else.
C2_ResaleStep ==
    Committed("transferFrom") =>
        LET from == last'.args[1]
            to == last'.args[2]
            tokenId == last'.args[3]
        IN  ( /\ productDetails[tokenId].warrantyStart # 0
              /\ hasRole(RETAILER_ROLE, from)
              /\ ~hasRole(RETAILER_ROLE, to) )
            => /\ owners' = [owners EXCEPT ![tokenId] = to]
               /\ productDetails' = productDetails
               /\ log' = log

\* No call ever reverts with WarrantyAlreadyActivated.
C2_NeverAlreadyActivated ==
    \A caller \in Accounts, from \in Accounts, to \in Addresses, tokenId \in TokenIds :
        transferFromErr(caller, from, to, tokenId) # "WarrantyAlreadyActivated"

C3_ProductIdsSequential ==
    LET regs == FactsOf("ProductRegistered") IN
    /\ \A i \in 1 .. Len(regs) : regs[i].tokenId = i
    /\ tokenIdCounter = Len(regs) + 1
    /\ last.op = "registerProduct" => last.ret = Len(regs)

\* Two products are registered, other calls were made in between, and the
\* second registration has just returned 2.
C3_Witness ==
    /\ last.op = "registerProduct"
    /\ last.ret = 2
    /\ txCount > 2

\* ---------------------------------------------------------------------- C4
\* The serial numbers of the registrations that succeeded.
RegisteredSerials ==
    {FactsOf("ProductRegistered")[i].serialNumber :
        i \in 1 .. Len(FactsOf("ProductRegistered"))}

\* C4 as stated: once a registerProduct with serial number S has succeeded,
\* every later registerProduct with S fails with SerialNumberExists, whoever
\* the calling principal is and whatever owner it names.
C4_AnyPrincipalGetsSerialNumberExists ==
    \A S \in RegisteredSerials, caller \in Accounts, initialOwner \in Addresses :
        registerProductErr(caller, initialOwner, S) = "SerialNumberExists"

\* C4: once a registerProduct with serial number S has succeeded, every
\* registerProduct with S is rejected, whatever owner it names (the model,
\* the duration and the claim limit are not read by the checks): with
\* SerialNumberExists when the caller holds MANUFACTURER_ROLE, with the
\* role modifier's AccessControlUnauthorizedAccount when it does not; and
\* there is exactly one record and one ProductRegistered fact with S.
C4_DuplicateSerialRejected ==
    /\ \A S \in RegisteredSerials, caller \in Accounts, initialOwner \in Addresses :
           registerProductErr(caller, initialOwner, S) =
               IF hasRole(MANUFACTURER_ROLE, caller)
               THEN "SerialNumberExists"
               ELSE "AccessControlUnauthorizedAccount"
    /\ \A i, j \in RegisteredIds :
           i # j => productDetails[i].serialNumber # productDetails[j].serialNumber
    /\ Cardinality(RegisteredSerials) = Len(FactsOf("ProductRegistered"))

\* A serial number is registered, later calls were made, and the other
\* serial number can still be registered.
C4_Witness ==
    /\ txCount >= 2
    /\ \E S \in RegisteredSerials, T \in Serials :
           /\ registerProductErr(Deployer, ZeroAddress, S) = "SerialNumberExists"
           /\ registerProductErr(Deployer, Deployer, T) = "OK"

\* ---------------------------------------------------------------------- C5
\* What each command requires, restated from its contract.
C5_Allowed(r) ==
    CASE r.op = "registerProduct" ->
             /\ hasRole(MANUFACTURER_ROLE, r.caller)
             /\ r.args[2] # ""
             /\ \A i \in RegisteredIds : productDetails[i].serialNumber # r.args[2]
             /\ r.args[1] # ZeroAddress
             /\ hasRole(RETAILER_ROLE, r.args[1])
      [] r.op = "transferFrom" ->
             /\ r.args[3] \in RegisteredIds
             /\ r.caller = owners[r.args[3]]
             /\ r.args[1] = owners[r.args[3]]
             /\ r.args[2] # ZeroAddress
      [] r.op = "submitWarrantyClaim" ->
             LET product == productDetails[r.args[1]] IN
             /\ r.args[1] \in RegisteredIds
             /\ r.caller = owners[r.args[1]]
             /\ product.warrantyStart # 0
             /\ now <= product.warrantyExpiration
             /\ product.warrantyClaimCount < product.warrantyClaimLimit
             /\ r.args[2] # ""
      [] r.op = "processWarrantyClaim" ->
             /\ hasRole(SERVICE_CENTER_ROLE, r.caller)
             /\ r.args[1] \in AllocatedClaimIds
             /\ ~warrantyClaims[r.args[1]].processed
      [] r.op = "recordService" ->
             /\ hasRole(SERVICE_CENTER_ROLE, r.caller)
             /\ r.args[1] \in AllocatedClaimIds
             /\ warrantyClaims[r.args[1]].processed
             /\ warrantyClaims[r.args[1]].approved
             /\ warrantyClaims[r.args[1]].serviceNotes = ""
             /\ r.args[2] # ""
      [] r.op \in {"grantRole", "revokeRole"} ->
             hasRole(DEFAULT_ADMIN_ROLE, r.caller)
      [] OTHER -> FALSE

\* C5: a command that fails changes nothing: every step that changes a
\* product record, a claim, the ownership, the serial index, an id counter,
\* a role or the fact log is a committed call whose requirements all held in
\* the state it was made in.  (A registerProduct with an empty serial is
\* therefore no step and takes no id.)
C5_FailedCallsChangeNothing ==
    [][ (ledger' # ledger \/ txCount' # txCount)
            => (txCount' # txCount /\ C5_Allowed(last')) ]_vars

\* After some calls have committed, each of the five commands has a call
\* that is rejected and the empty serial is one of them.
C5_Witness ==
    /\ txCount >= 3
    /\ tokenIdCounter = 2
    /\ registerProductErr(Deployer, Deployer, "") = "SerialNumberEmpty"
    /\ \E to \in Addresses : transferFromErr(Deployer, Deployer, to, 1) # "OK"
    /\ submitWarrantyClaimErr(Deployer, 1, "broken") # "OK"
    /\ \E c \in ClaimIds : processWarrantyClaimErr(Deployer, c) # "OK"
    /\ \E c \in AllocatedClaimIds : recordServiceErr(Deployer, c, "fixed") # "OK"

\* ---------------------------------------------------------------------- C6
\* C6: for a registered id isWarrantyActive returns, at every time, whether
\* warrantyStart > 0, now <= warrantyExpiration and warrantyClaimCount <
\* warrantyClaimLimit all hold (so it is false once the claim count has
\* reached the limit, expired or not); for any other id it fails with
\* ProductNotRegistered.
C6_IsWarrantyActive ==
    \A tokenId \in TokenIds :
        IF tokenId \in RegisteredIds
        THEN LET product == productDetails[tokenId] IN
             /\ isWarrantyActive(tokenId).err = "OK"
             /\ isWarrantyActive(tokenId).ret =
                    ( /\ product.warrantyStart > 0
                      /\ now <= product.warrantyExpiration
                      /\ product.warrantyClaimCount < product.warrantyClaimLimit )
             /\ (product.warrantyClaimCount >= product.warrantyClaimLimit
                    => ~isWarrantyActive(tokenId).ret)
        ELSE isWarrantyActive(tokenId).err = "ProductNotRegistered"

\* A product has used both of its claims and its warranty has not expired.
C6_Witness ==
    \E tokenId \in RegisteredIds :
        /\ productDetails[tokenId].warrantyClaimCount = 2
        /\ productDetails[tokenId].warrantyClaimLimit = 2
        /\ now <= productDetails[tokenId].warrantyExpiration
        /\ ~isWarrantyActive(tokenId).ret

\* ---------------------------------------------------------------------- C7
C7_CountWithinLimit ==
    \A tokenId \in RegisteredIds :
        LET product == productDetails[tokenId] IN
        /\ product.warrantyClaimCount <= product.warrantyClaimLimit
        /\ ( /\ product.warrantyClaimCount = product.warrantyClaimLimit
             /\ product.warrantyStart # 0
             /\ now <= product.warrantyExpiration )
           => \A d \in Descriptions :
                  submitWarrantyClaimErr(owners[tokenId], tokenId, d) = "ClaimLimitReached"
        /\ product.warrantyClaimLimit = 0
           => /\ \A caller \in Accounts, d \in Descriptions :
                     submitWarrantyClaimErr(caller, tokenId, d) # "OK"
              /\ \A c \in AllocatedClaimIds : warrantyClaims[c].tokenId # tokenId

C7_CountNeverDecreases ==
    \A tokenId \in RegisteredIds :
        productDetails'[tokenId].warrantyClaimCount
            >= productDetails[tokenId].warrantyClaimCount

\* C7: warrantyClaimCount <= warrantyClaimLimit for every product, always;
\* the count never decreases (processing a claim, approved or rejected, gives
\* no slot back); once the count equals the limit every submitWarrantyClaim
\* by the owner of an activated, unexpired product fails with
\* ClaimLimitReached; a product registered with claimLimit 0 never accepts a
\* claim.
C7_ClaimLimit == []C7_CountWithinLimit /\ [][C7_CountNeverDecreases]_vars

\* A product has used both of its claims, one of them was rejected, and its
\* warranty is activated and not expired.
C7_Witness ==
    \E tokenId \in RegisteredIds, c \in AllocatedClaimIds :
        /\ productDetails[tokenId].warrantyClaimCount = 2
        /\ productDetails[tokenId].warrantyClaimLimit = 2
        /\ now <= productDetails[tokenId].warrantyExpiration
        /\ warrantyClaims[c].tokenId = tokenId
        /\ warrantyClaims[c].processed
        /\ ~warrantyClaims[c].approved

\* ---------------------------------------------------------------------- C8
\* C8: for an existing claim that is unprocessed or was rejected,
\* recordService by a service center fails with ClaimNotApproved whatever
\* the notes, and the claim's serviceNotes are empty; so a claim that holds
\* service notes is processed and approved.
C8_ServiceNeedsApproval ==
    \A c \in AllocatedClaimIds :
        LET claim == warrantyClaims[c] IN
        /\ ~(claim.processed /\ claim.approved)
           => /\ claim.serviceNotes = ""
              /\ \A caller \in Accounts, n \in Notes :
                     hasRole(SERVICE_CENTER_ROLE, caller)
                         => recordServiceErr(caller, c, n) = "ClaimNotApproved"
        /\ claim.serviceNotes # "" => (claim.processed /\ claim.approved)

\* A rejected claim and an unprocessed claim exist.
C8_Witness ==
    \E c, d \in AllocatedClaimIds :
        /\ warrantyClaims[c].processed
        /\ ~warrantyClaims[c].approved
        /\ ~warrantyClaims[d].processed

\* ---------------------------------------------------------------------- C9
C9_SecondServiceRejected ==
    \A c \in AllocatedClaimIds :
        warrantyClaims[c].serviceNotes # ""
            => \A caller \in Accounts, n \in Notes :
                   hasRole(SERVICE_CENTER_ROLE, caller)
                       => recordServiceErr(caller, c, n) = "ServiceAlreadyRecorded"

C9_NotesWrittenOnce ==
    \A c \in AllocatedClaimIds :
        warrantyClaims[c].serviceNotes # ""
            => warrantyClaims'[c].serviceNotes = warrantyClaims[c].serviceNotes

\* C9: after a recordService on a claim has succeeded, every recordService
\* on that claim by a service center fails with ServiceAlreadyRecorded, with
\* empty notes too, and the stored serviceNotes never change again.
C9_ServiceRecordedOnce == []C9_SecondServiceRejected /\ [][C9_NotesWrittenOnce]_vars

\* A service record has just been attached to a claim.
C9_Witness ==
    /\ last.op = "recordService"
    /\ warrantyClaims[last.args[1]].serviceNotes = last.args[2]
    /\ last.args[2] # ""

\* --------------------------------------------------------------------- C10
C10_Decided ==
    \A c \in ClaimIds, caller \in Accounts :
        hasRole(SERVICE_CENTER_ROLE, caller)
            => /\ (c \in AllocatedClaimIds /\ warrantyClaims[c].processed)
                      => processWarrantyClaimErr(caller, c) = "ClaimAlreadyProcessed"
               /\ c \notin AllocatedClaimIds
                      => processWarrantyClaimErr(caller, c) = "ClaimNotExist"

C10_DecisionStep ==
    /\ Committed("processWarrantyClaim") =>
           LET c == last'.args[1] IN
           /\ ~warrantyClaims[c].processed
           /\ warrantyClaims' = [warrantyClaims EXCEPT
                  ![c].processed = TRUE,
                  ![c].approved = last'.args[2],
                  ![c].processedAt = now]
    /\ \A c \in AllocatedClaimIds :
           warrantyClaims[c].processed
               => /\ warrantyClaims'[c].processed
                  /\ warrantyClaims'[c].approved = warrantyClaims[c].approved
                  /\ warrantyClaims'[c].processedAt = warrantyClaims[c].processedAt

\* C10: the first processWarrantyClaim on an unprocessed claim sets
\* processed = true, approved = the argument and processedAt = now; from then
\* on every processWarrantyClaim on it by a service center fails with
\* ClaimAlreadyProcessed and processed, approved and processedAt keep their
\* values; on a claim id never allocated it fails with ClaimNotExist.
C10_ProcessOnce == []C10_Decided /\ [][C10_DecisionStep]_vars

\* A claim was rejected at one time and it is now a later time.
C10_Witness ==
    \E c \in AllocatedClaimIds :
        /\ warrantyClaims[c].processed
        /\ ~warrantyClaims[c].approved
        /\ warrantyClaims[c].processedAt < now

\* --------------------------------------------------------------------- C11
\* The error of the first violated precondition of submitClaim, in the
\* order NotOwner, WarrantyNotActivated, WarrantyExpired, ClaimLimitReached,
\* IssueDescriptionEmpty.
C11_FirstViolated(caller, tokenId, issueDescription) ==
    LET product == productDetails[tokenId] IN
    IF caller # owners[tokenId] THEN "NotOwner"
    ELSE IF product.warrantyStart = 0 THEN "WarrantyNotActivated"
    ELSE IF ~(now <= product.warrantyExpiration) THEN "WarrantyExpired"
    ELSE IF ~(product.warrantyClaimCount < product.warrantyClaimLimit)
         THEN "ClaimLimitReached"
    ELSE IF issueDescription = "" THEN "IssueDescriptionEmpty"
    ELSE "OK"

\* C11 as stated: for every product id and caller, submitWarrantyClaim
\* reports the first violated precondition in the order NotOwner,
\* WarrantyNotActivated, WarrantyExpired, ClaimLimitReached,
\* IssueDescriptionEmpty; a caller that is not the current owner gets
\* NotOwner.
C11_OrderForEveryId ==
    \A tokenId \in TokenIds, caller \in Accounts, d \in Descriptions :
        submitWarrantyClaimErr(caller, tokenId, d) = C11_FirstViolated(caller, tokenId, d)

\* C11: for every registered product id and every caller,
\* submitWarrantyClaim reports the first violated precondition in the order
\* NotOwner, WarrantyNotActivated, WarrantyExpired, ClaimLimitReached,
\* IssueDescriptionEmpty (so a claim at now = warrantyExpiration is not
\* rejected as expired); for an id that was never registered the ownership
\* lookup fails first, with ERC721NonexistentToken, whoever calls.
C11_SubmitCheckOrder ==
    \A tokenId \in TokenIds, caller \in Accounts, d \in Descriptions :
        /\ submitWarrantyClaimErr(caller, tokenId, d) =
               IF tokenId \in RegisteredIds
               THEN C11_FirstViolated(caller, tokenId, d)
               ELSE "ERC721NonexistentToken"
        /\ (tokenId \in RegisteredIds /\ now = productDetails[tokenId].warrantyExpiration)
               => submitWarrantyClaimErr(caller, tokenId, d) # "WarrantyExpired"

\* The owner of an expired product with no claim left is told
\* WarrantyExpired, while the owner of another product claims at the very
\* time its warranty expires.
C11_Witness ==
    \E t, u \in RegisteredIds :
        /\ productDetails[t].warrantyStart # 0
        /\ now > productDetails[t].warrantyExpiration
        /\ productDetails[t].warrantyClaimCount >= productDetails[t].warrantyClaimLimit
        /\ submitWarrantyClaimErr(owners[t], t, "") = "WarrantyExpired"
        /\ productDetails[u].warrantyStart # 0
        /\ now = productDetails[u].warrantyExpiration
        /\ submitWarrantyClaimErr(owners[u], u, "broken") = "OK"

\* --------------------------------------------------------------------- C12
C12_ClaimIdsSequential ==
    LET subs == FactsOf("WarrantyClaimSubmitted") IN
    /\ claimIdCounter = Len(subs) + 1
    /\ \A i \in 1 .. Len(subs) : subs[i].claimId = i
    /\ last.op = "submitWarrantyClaim" => last.ret = Len(subs)

C12_SubmitStep ==
    /\ Committed("submitWarrantyClaim") =>
           LET tokenId == last'.args[1]
               newClaimId == last'.ret
           IN  /\ productDetails' = [productDetails EXCEPT
                      ![tokenId].warrantyClaimCount =
                          productDetails[tokenId].warrantyClaimCount + 1]
               /\ newClaimId = claimIdCounter
               /\ claimIdCounter' = newClaimId + 1
               /\ warrantyClaims[newClaimId] = EmptyClaim
               /\ warrantyClaims'[newClaimId].tokenId = tokenId
               /\ warrantyClaims'[newClaimId].customer = owners[tokenId]
               /\ warrantyClaims'[newClaimId].customer = owners'[tokenId]
               /\ ~warrantyClaims'[newClaimId].processed
               /\ ~warrantyClaims'[newClaimId].approved
               /\ warrantyClaims'[newClaimId].processedAt = 0
               /\ warrantyClaims'[newClaimId].serviceNotes = ""
               /\ \A c \in ClaimIds \ {newClaimId} :
                      warrantyClaims'[c] = warrantyClaims[c]
               /\ Len(log') = Len(log) + 1
               /\ SubSeq(log', 1, Len(log)) = log
               /\ Last(log').type = "WarrantyClaimSubmitted"
               /\ Last(log').claimId = newClaimId
               /\ Last(log').tokenId = tokenId
    /\ claimIdCounter' # claimIdCounter => Committed("submitWarrantyClaim")

\* C12: a successful submitWarrantyClaim increments the product's
\* warrantyClaimCount by exactly 1, returns the next id of one global
\* sequence 1, 2, ... that no other operation advances, stores under that
\* id (unused until then) a claim with tokenId = the product, customer = the
\* current owner, processed = false, approved = false, processedAt = 0 and
\* empty serviceNotes, leaves the other claims alone and appends exactly
\* one WarrantyClaimSubmitted fact.
C12_SubmitEffect == []C12_ClaimIdsSequential /\ [][C12_SubmitStep]_vars

\* A second claim was submitted, while another product is registered too;
\* it got claim id 2 and the product's count is 2.
C12_Witness ==
    /\ last.op = "submitWarrantyClaim"
    /\ last.ret = 2
    /\ tokenIdCounter = 3
    /\ warrantyClaims[2].customer = owners[last.args[1]]
    /\ productDetails[last.args[1]].warrantyClaimCount = 2

\* --------------------------------------------------------------------- C13
\* The error of the first violated precondition of registerProduct, in the
\* order SerialNumberEmpty, SerialNumberExists, ZeroAddress, NotRetailer.
C13_FirstViolated(initialOwner, serialNumber) ==
    IF serialNumber = "" THEN "SerialNumberEmpty"
    ELSE IF \E i \in RegisteredIds : productDetails[i].serialNumber = serialNumber
         THEN "SerialNumberExists"
    ELSE IF initialOwner = ZeroAddress THEN "ZeroAddress"
    ELSE IF initialOwner \notin roles[RETAILER_ROLE] THEN "NotRetailer"
    ELSE "OK"

\* C13: registerProduct called by a holder of MANUFACTURER_ROLE reports the
\* first violated precondition in the order SerialNumberEmpty,
\* SerialNumberExists, ZeroAddress, NotRetailer, for every initial owner and
\* serial number, and succeeds when none is violated.
C13_RegisterCheckOrder ==
    \A caller \in Accounts, initialOwner \in Addresses, serialNumber \in Serials :
        hasRole(MANUFACTURER_ROLE, caller)
            => registerProductErr(caller, initialOwner, serialNumber)
                   = C13_FirstViolated(initialOwner, serialNumber)

\* One serial number is registered, another is not, and some account is no
\* retailer: each of the four errors is reported, the earlier check winning.
C13_Witness ==
    \E S \in RegisteredSerials, T \in Serials, a \in Accounts :
        /\ ~hasRole(RETAILER_ROLE, a)
        /\ registerProductErr(Deployer, ZeroAddress, "") = "SerialNumberEmpty"
        /\ registerProductErr(Deployer, a, S) = "SerialNumberExists"
        /\ registerProductErr(Deployer, ZeroAddress, T) = "ZeroAddress"
        /\ registerProductErr(Deployer, a, T) = "NotRetailer"

\* --------------------------------------------------------------------- C14
\* C14: in every state, whatever roles were granted or revoked before, a
\* registerProduct call by an account that does not hold MANUFACTURER_ROLE
\* and a processWarrantyClaim or recordService call by an account that does
\* not hold SERVICE_CENTER_ROLE reverts (with
\* AccessControlUnauthorizedAccount, so it changes nothing), whatever its
\* arguments and whatever other roles, DEFAULT_ADMIN_ROLE included, the
\* account holds.
C14_RoleGating ==
    \A caller \in Accounts :
        /\ caller \notin roles[MANUFACTURER_ROLE]
               => \A initialOwner \in Addresses, serialNumber \in Serials :
                      registerProductErr(caller, initialOwner, serialNumber)
                          = "AccessControlUnauthorizedAccount"
        /\ caller \notin roles[SERVICE_CENTER_ROLE]
               => \A claimId \in ClaimIds :
                      /\ processWarrantyClaimErr(caller, claimId)
                             = "AccessControlUnauthorizedAccount"
                      /\ \A n \in Notes :
                             recordServiceErr(caller, claimId, n)
                                 = "AccessControlUnauthorizedAccount"

\* The deployer approved a claim and then lost SERVICE_CENTER_ROLE: it still
\* holds the administrative role, the claim awaits its service record, and
\* an unprocessed claim may exist, yet it can do neither.
C14_Witness ==
    /\ last.op = "revokeRole"
    /\ last.args = <<SERVICE_CENTER_ROLE, Deployer>>
    /\ Deployer \in roles[DEFAULT_ADMIN_ROLE]
    /\ Deployer \notin roles[SERVICE_CENTER_ROLE]
    /\ \E c \in AllocatedClaimIds :
           /\ warrantyClaims[c].processed
           /\ warrantyClaims[c].approved
           /\ warrantyClaims[c].serviceNotes = ""
           /\ recordServiceErr(Deployer, c, "fixed") = "AccessControlUnauthorizedAccount"

\* --------------------------------------------------------------------- C15
\* C15: a transfer of a registered product by its owner to any non-null
\* recipient is accepted, whatever roles owner and recipient hold and
\* whether or not the warranty is activated, and the transfer that was
\* committed last has made its recipient the owner.
C15_TransferAlwaysSucceeds ==
    /\ \A tokenId \in RegisteredIds, to \in Addresses \ {ZeroAddress} :
           transferFromErr(owners[tokenId], owners[tokenId], to, tokenId) = "OK"
    /\ last.op = "transferFrom" => owners[last.args[3]] = last.args[2]

\* An activated product has just gone back from a customer to a retailer,
\* while another product is still unsold.
C15_Witness ==
    /\ last.op = "transferFrom"
    /\ last.caller \notin roles[RETAILER_ROLE]
    /\ last.args[2] \in roles[RETAILER_ROLE]
    /\ owners[last.args[3]] = last.args[2]
    /\ productDetails[last.args[3]].warrantyStart # 0
    /\ \E t \in RegisteredIds : productDetails[t].warrantyStart = 0

\* --------------------------------------------------------------------- C16
\* The ids the successful registerProduct and submitWarrantyClaim calls
\* returned, as the facts record them.
C16_ReturnedTokenIds ==
    {FactsOf("ProductRegistered")[i].tokenId :
        i \in 1 .. Len(FactsOf("ProductRegistered"))}

C16_ReturnedClaimIds ==
    {FactsOf("WarrantyClaimSubmitted")[i].claimId :
        i \in 1 .. Len(FactsOf("WarrantyClaimSubmitted"))}

\* C16: for every id, 0 included, getProductDetails returns the stored
\* record (with the serial number and the manufacturer it was registered
\* with) if a successful registerProduct returned that id and fails with
\* ProductNotRegistered otherwise; getWarrantyClaim returns the stored claim
\* (of the product it was submitted for) if a successful
\* submitWarrantyClaim returned that id and fails with ClaimNotExist
\* otherwise.  Both are view functions: they read the state only.
C16_QueriesDetectAbsence ==
    /\ \A id \in TokenIds :
           IF id \in C16_ReturnedTokenIds
           THEN /\ getProductDetails(id).err = "OK"
                /\ getProductDetails(id).ret = productDetails[id]
                /\ \E i \in 1 .. Len(FactsOf("ProductRegistered")) :
                       LET f == FactsOf("ProductRegistered")[i] IN
                       /\ f.tokenId = id
                       /\ getProductDetails(id).ret.serialNumber = f.serialNumber
                       /\ getProductDetails(id).ret.manufacturer = f.manufacturer
           ELSE getProductDetails(id).err = "ProductNotRegistered"
    /\ \A id \in ClaimIds :
           IF id \in C16_ReturnedClaimIds
           THEN /\ getWarrantyClaim(id).err = "OK"
                /\ getWarrantyClaim(id).ret = warrantyClaims[id]
                /\ \E i \in 1 .. Len(FactsOf("WarrantyClaimSubmitted")) :
                       LET f == FactsOf("WarrantyClaimSubmitted")[i] IN
                       /\ f.claimId = id
                       /\ getWarrantyClaim(id).ret.tokenId = f.tokenId
           ELSE getWarrantyClaim(id).err = "ClaimNotExist"

\* A product that was never sold and a claim on another product exist;
\* id 0 and the next ids to be allocated are absent.
C16_Witness ==
    /\ \E t \in C16_ReturnedTokenIds :
           /\ productDetails[t].warrantyStart = 0
           /\ getProductDetails(t).err = "OK"
    /\ \E c \in C16_ReturnedClaimIds : getWarrantyClaim(c).ret.tokenId # 0
    /\ getProductDetails(0).err = "ProductNotRegistered"
    /\ getProductDetails(tokenIdCounter).err = "ProductNotRegistered"
    /\ getWarrantyClaim(0).err = "ClaimNotExist"
    /\ getWarrantyClaim(claimIdCounter).err = "ClaimNotExist"

\* --------------------------------------------------------------------- C17
C17_IndexOneToOne ==
    /\ \A id \in RegisteredIds :
           tokenIdForSerialHash[keccak256(productDetails[id].serialNumber)] = id
    /\ \A h \in SerialHashes :
           tokenIdForSerialHash[h] # 0 => tokenIdForSerialHash[h] \in RegisteredIds
    /\ \A i, j \in RegisteredIds :
           productDetails[i].serialNumber = productDetails[j].serialNumber => i = j

C17_RegisterStep ==
    Committed("registerProduct") =>
        LET id == last'.ret IN
        /\ productDetails[id] = EmptyProduct
        /\ productDetails'[id].serialNumber = last'.args[2]
        /\ productDetails'[id].model = last'.args[3]
        /\ productDetails'[id].manufacturer = last'.caller
        /\ productDetails'[id].manufactureTimestamp = now
        /\ productDetails'[id].warrantyDuration = last'.args[4]
        /\ productDetails'[id].warrantyClaimLimit = last'.args[5]
        /\ productDetails'[id].warrantyStart = 0
        /\ productDetails'[id].warrantyExpiration = 0
        /\ productDetails'[id].warrantyClaimCount = 0
        /\ \A t \in TokenIds \ {id} : productDetails'[t] = productDetails[t]
        /\ owners' = [owners EXCEPT ![id] = last'.args[1]]
        /\ tokenIdForSerialHash' =
               [tokenIdForSerialHash EXCEPT ![keccak256(last'.args[2])] = id]

\* C17: a successful registerProduct stores, under the id it returns, a
\* record with the serial number, model, duration and claim limit given,
\* warrantyStart = warrantyExpiration = warrantyClaimCount = 0,
\* manufacturer = the caller and manufactureTimestamp = now, makes
\* initialOwner the owner and indexes the serial; in every state the index
\* maps the hash of every record's serial number to that record's id, every
\* non-zero index entry is a registered id, and no two records share a
\* serial number.
C17_RegistrationEffect == []C17_IndexOneToOne /\ [][C17_RegisterStep]_vars

\* A second product has just been registered, at a later time than the
\* first, for a retailer other than the manufacturer.
C17_Witness ==
    /\ last.op = "registerProduct"
    /\ last.ret = 2
    /\ last.args[1] # last.caller
    /\ owners[2] = last.args[1]
    /\ productDetails[1].manufactureTimestamp < productDetails[2].manufactureTimestamp
    /\ tokenIdForSerialHash[keccak256(last.args[2])] = 2

\* --------------------------------------------------------------------- C18
\* The WarrantyActivated facts of a product.
C18_Activations(tokenId) ==
    SelectSeq(log, LAMBDA e : e.type = "WarrantyActivated" /\ e.tokenId = tokenId)

C18_ActivatedAtMostOnce ==
    \A tokenId \in TokenIds :
        /\ Len(C18_Activations(tokenId)) <= 1
        /\ Len(C18_Activations(tokenId)) = 1
               <=> (tokenId \in RegisteredIds /\ productDetails[tokenId].warrantyStart # 0)

C18_ActivationKept ==
    \A tokenId \in RegisteredIds :
        productDetails[tokenId].warrantyStart # 0
            => /\ productDetails'[tokenId].warrantyStart
                      = productDetails[tokenId].warrantyStart
               /\ productDetails'[tokenId].warrantyExpiration
                      = productDetails[tokenId].warrantyExpiration

\* C18: once a product's warrantyStart is non-zero, every later step
\* (transfers in any direction, claims, decisions, service records, role
\* changes, the passing of time) keeps its warrantyStart and
\* warrantyExpiration, and the log never holds more than one
\* WarrantyActivated fact of a product: exactly one if it is activated, none
\* if it is not.
C18_ActivationIrreversible == []C18_ActivatedAtMostOnce /\ [][C18_ActivationKept]_vars

\* A product sold at time 1 went back to the retailer and has just been
\* sold to a customer again, at a later time.
C18_Witness ==
    /\ last.op = "transferFrom"
    /\ txCount >= 4
    /\ last.args[1] \in roles[RETAILER_ROLE]
    /\ last.args[2] \notin roles[RETAILER_ROLE]
    /\ owners[last.args[3]] = last.args[2]
    /\ productDetails[last.args[3]].warrantyStart # 0
    /\ productDetails[last.args[3]].warrantyStart < now
    /\ Len(C18_Activations(last.args[3])) = 1

\* --------------------------------------------------------------------- C19
\* C19: in every state and for every registered product, warrantyStart = 0
\* if and only if warrantyExpiration = 0.
C19_StartExpirationPaired ==
    \A tokenId \in RegisteredIds :
        productDetails[tokenId].warrantyStart = 0
            <=> productDetails[tokenId].warrantyExpiration = 0

\* --------------------------------------------------------------------- C20
\* C20: for every activated product, whatever duration it was registered
\* with and whenever it was activated, warrantyExpiration = warrantyStart +
\* warrantyDuration, hence warrantyExpiration >= warrantyStart.
C20_ExpirationIsStartPlusDuration ==
    \A tokenId \in RegisteredIds :
        productDetails[tokenId].warrantyStart # 0
            => /\ productDetails[tokenId].warrantyExpiration
                      = productDetails[tokenId].warrantyStart
                            + productDetails[tokenId].warrantyDuration
               /\ productDetails[tokenId].warrantyExpiration
                      >= productDetails[tokenId].warrantyStart

\* --------------------------------------------------------------------- C21
\* The activation condition of a transfer of tokenId by its owner to `to`.
C21_Activates(tokenId, to) ==
    /\ owners[tokenId] \in roles[RETAILER_ROLE]
    /\ to \notin roles[RETAILER_ROLE]
    /\ to # ZeroAddress
    /\ productDetails[tokenId].warrantyStart = 0

\* C21: in every state, the ownership update of a transfer of a registered
\* product that does not meet the activation condition (retailer to
\* retailer, non-retailer to non-retailer, non-retailer to retailer, or a
\* product already activated) returns every product record as it was and
\* emits no WarrantyActivated event; and the product that registerProduct
\* has just minted to its initial owner has warrantyStart =
\* warrantyExpiration = 0 and no WarrantyActivated fact.
C21_OtherTransfersKeepWarranty ==
    /\ \A tokenId \in RegisteredIds, to \in Accounts :
           ~C21_Activates(tokenId, to)
               => LET u == _update(owners, productDetails, to, tokenId, owners[tokenId])
                  IN  /\ u.err = "OK"
                      /\ u.own[tokenId] = to
                      /\ u.pd = productDetails
                      /\ u.ev = <<>>
    /\ last.op = "registerProduct"
           => /\ productDetails[last.ret].warrantyStart = 0
              /\ productDetails[last.ret].warrantyExpiration = 0
              /\ Last(log).type = "ProductRegistered"
              /\ \A i \in 1 .. Len(log) :
                     log[i].type = "WarrantyActivated" => log[i].tokenId # last.ret

\* A retailer has just passed an unsold product to another retailer, and
\* the product is still unactivated.
C21_Witness ==
    /\ last.op = "transferFrom"
    /\ last.args[1] # last.args[2]
    /\ last.args[1] \in roles[RETAILER_ROLE]
    /\ last.args[2] \in roles[RETAILER_ROLE]
    /\ owners[last.args[3]] = last.args[2]
    /\ productDetails[last.args[3]].warrantyStart = 0
    /\ productDetails[last.args[3]].warrantyExpiration = 0

\* --------------------------------------------------------------------- C22
C22_OneOwnerEach ==
    /\ \A tokenId \in TokenIds :
           IF tokenId \in RegisteredIds
           THEN owners[tokenId] \in Accounts
           ELSE owners[tokenId] = ZeroAddress
    /\ last.op = "registerProduct" => owners[last.ret] = last.args[1]

C22_OwnerChangesByTransfer ==
    \A tokenId \in RegisteredIds :
        owners'[tokenId] # owners[tokenId]
            => /\ Committed("transferFrom")
               /\ last'.args[3] = tokenId
               /\ last'.args[1] = owners[tokenId]
               /\ last'.args[2] = owners'[tokenId]

\* C22: in every state every registered product has exactly one owner, an
\* account and never address(0) (the owner of the product minted last is the
\* initialOwner given), and ids not registered have none; the owner of a
\* registered product changes only in a step that commits a transferFrom of
\* that product from the old owner to the new one: submitWarrantyClaim,
\* processWarrantyClaim, recordService, other registrations, role grants and
\* revocations and the passing of time leave it as it is.
C22_Ownership == []C22_OneOwnerEach /\ [][C22_OwnerChangesByTransfer]_vars

\* A product is with its second owner, and a claim on it was submitted and
\* decided since the transfer.
C22_Witness ==
    /\ last.op = "processWarrantyClaim"
    /\ \E c \in AllocatedClaimIds :
           LET tokenId == warrantyClaims[c].tokenId IN
           /\ warrantyClaims[c].processed
           /\ owners[tokenId] = warrantyClaims[c].customer
           /\ owners[tokenId] # productDetails[tokenId].manufacturer

\* --------------------------------------------------------------------- C23
C23_RecordsKept ==
    \A tokenId \in RegisteredIds : productDetails[tokenId].manufactureTimestamp # 0

C23_RecordStep ==
    /\ \A tokenId \in RegisteredIds :
           LET old == productDetails[tokenId]
               new == productDetails'[tokenId]
           IN  /\ new.serialNumber = old.serialNumber
               /\ new.model = old.model
               /\ new.manufacturer = old.manufacturer
               /\ new.manufactureTimestamp = old.manufactureTimestamp
               /\ new.warrantyDuration = old.warrantyDuration
               /\ new.warrantyClaimLimit = old.warrantyClaimLimit
               /\ (new.warrantyStart # old.warrantyStart
                      \/ new.warrantyExpiration # old.warrantyExpiration)
                      => /\ Committed("transferFrom")
                         /\ last'.args[3] = tokenId
                         /\ old.warrantyStart = 0
               /\ new.warrantyClaimCount # old.warrantyClaimCount
                      => /\ Committed("submitWarrantyClaim")
                         /\ last'.args[1] = tokenId
    /\ (Committed("processWarrantyClaim") \/ Committed("recordService"))
           => productDetails' = productDetails

\* C23: a registered product's record stays (its manufactureTimestamp is
\* never 0 again); no step changes its serialNumber, model, manufacturer,
\* manufactureTimestamp, warrantyDuration or warrantyClaimLimit;
\* warrantyStart and warrantyExpiration change only in a transferFrom of
\* that product while it is unactivated, warrantyClaimCount only in a
\* submitWarrantyClaim on that product; processWarrantyClaim and
\* recordService change no product record.
C23_RecordImmutable == []C23_RecordsKept /\ [][C23_RecordStep]_vars

\* A product went through its whole life: sold, claimed, the claim approved
\* and serviced; its record still reads as it was registered.
C23_Witness ==
    /\ last.op = "recordService"
    /\ \E c \in AllocatedClaimIds, i \in 1 .. Len(FactsOf("ProductRegistered")) :
           LET product == productDetails[warrantyClaims[c].tokenId]
               f == FactsOf("ProductRegistered")[i]
           IN  /\ warrantyClaims[c].serviceNotes # ""
               /\ f.tokenId = warrantyClaims[c].tokenId
               /\ product.serialNumber = f.serialNumber
               /\ product.manufacturer = f.manufacturer
               /\ product.warrantyStart # 0
               /\ product.warrantyClaimCount = 1

\* --------------------------------------------------------------------- C24
C24_ClaimsKept ==
    \A c \in AllocatedClaimIds : warrantyClaims[c].tokenId \in RegisteredIds

C24_ClaimStep ==
    \A c \in AllocatedClaimIds :
        LET old == warrantyClaims[c]
            new == warrantyClaims'[c]
        IN  /\ new.tokenId = old.tokenId
            /\ new.customer = old.customer
            /\ new.issueDescription = old.issueDescription
            /\ new.submittedAt = old.submittedAt
            /\ (new.processed # old.processed \/ new.approved # old.approved
                   \/ new.processedAt # old.processedAt)
                   => (Committed("processWarrantyClaim") /\ last'.args[1] = c)
            /\ new.serviceNotes # old.serviceNotes
                   => (Committed("recordService") /\ last'.args[1] = c)

\* C24: a stored claim stays (its tokenId remains a registered product); no
\* step, a transfer of the product included, changes its tokenId, customer,
\* issueDescription or submittedAt; processed, approved and processedAt
\* change only in a processWarrantyClaim of that claim and serviceNotes
\* only in a recordService of that claim.
C24_ClaimImmutable == []C24_ClaimsKept /\ [][C24_ClaimStep]_vars

\* A claim was decided after its product had gone to another owner: the
\* claim still names the owner at submission time.
C24_Witness ==
    /\ last.op = "processWarrantyClaim"
    /\ warrantyClaims[last.args[1]].processed
    /\ warrantyClaims[last.args[1]].customer
           # owners[warrantyClaims[last.args[1]].tokenId]

\* --------------------------------------------------------------------- C25
\* C25: in every state every stored claim satisfies: if processed is false
\* then approved is false, processedAt is 0 and serviceNotes is empty; if
\* serviceNotes is non-empty then processed and approved are true;
\* processedAt is non-zero exactly when processed is true.
C25_ClaimFieldsConsistent ==
    \A c \in AllocatedClaimIds :
        LET claim == warrantyClaims[c] IN
        /\ ~claim.processed
               => (~claim.approved /\ claim.processedAt = 0 /\ claim.serviceNotes = "")
        /\ claim.serviceNotes # "" => (claim.processed /\ claim.approved)
        /\ claim.processedAt # 0 <=> claim.processed

\* Some time after its approval a claim holds its service record.
C25_Witness ==
    \E c \in AllocatedClaimIds :
        /\ warrantyClaims[c].serviceNotes # ""
        /\ warrantyClaims[c].approved
        /\ warrantyClaims[c].processedAt # 0
        /\ warrantyClaims[c].processedAt < now

\* --------------------------------------------------------------------- C26
\* Fact i of the log is of the type given and about the product id given.
C26_ProductFact(i, type, tokenId) ==
    log[i].type = type /\ log[i].tokenId = tokenId

\* Fact i of the log is of the type given and about the claim id given.
C26_ClaimFact(i, type, claimId) ==
    log[i].type = type /\ log[i].claimId = claimId

C26_LifecycleOrder ==
    \A i \in 1 .. Len(log) :
        /\ log[i].type = "ProductRegistered"
               => \A j \in 1 .. Len(log) :
                      C26_ProductFact(j, "ProductRegistered", log[i].tokenId) => j = i
        /\ log[i].type = "WarrantyActivated"
               => /\ \E j \in 1 .. (i - 1) :
                         C26_ProductFact(j, "ProductRegistered", log[i].tokenId)
                  /\ \A j \in 1 .. Len(log) :
                         C26_ProductFact(j, "WarrantyActivated", log[i].tokenId) => j = i
        /\ log[i].type = "WarrantyClaimSubmitted"
               => \E j \in 1 .. (i - 1) :
                      C26_ProductFact(j, "WarrantyActivated", log[i].tokenId)
        /\ log[i].type = "WarrantyClaimProcessed"
               => /\ \E j \in 1 .. (i - 1) :
                         C26_ClaimFact(j, "WarrantyClaimSubmitted", log[i].claimId)
                  /\ \A j \in 1 .. Len(log) :
                         C26_ClaimFact(j, "WarrantyClaimProcessed", log[i].claimId) => j = i
        /\ log[i].type = "ServiceRecorded"
               => /\ \E j \in 1 .. (i - 1) :
                         /\ C26_ClaimFact(j, "WarrantyClaimProcessed", log[i].claimId)
                         /\ log[j].approved
                  /\ \A j \in 1 .. Len(log) :
                         C26_ClaimFact(j, "ServiceRecorded", log[i].claimId) => j = i

C26_AppendOnly ==
    /\ Len(log') >= Len(log)
    /\ SubSeq(log', 1, Len(log)) = log

\* C26: no step removes or rewrites a fact of the log (facts are only
\* appended), and in every state: a product's ProductRegistered fact comes
\* before its WarrantyActivated fact, which comes before each of its
\* WarrantyClaimSubmitted facts; a claim's WarrantyClaimSubmitted fact
\* comes before its WarrantyClaimProcessed fact, which comes before its
\* ServiceRecorded fact; ProductRegistered, WarrantyActivated,
\* WarrantyClaimProcessed and ServiceRecorded occur at most once per id;
\* a ServiceRecorded fact follows a WarrantyClaimProcessed fact of its
\* claim with approved = true.
C26_LogOrder == []C26_LifecycleOrder /\ [][C26_AppendOnly]_vars

\* The log of one product's whole life, fact after fact.
C26_Witness ==
    /\ Len(log) = 5
    /\ log[1].type = "ProductRegistered"
    /\ log[2].type = "WarrantyActivated"
    /\ log[3].type = "WarrantyClaimSubmitted"
    /\ log[4].type = "WarrantyClaimProcessed"
    /\ log[5].type = "ServiceRecorded"

\* --------------------------------------------------------------------- C27
\* C27: in every state (so at every time) and for every registered
\* product, isWarrantyActive returns true if and only if
\* submitWarrantyClaim on it by its current owner with a non-empty
\* description would be accepted.
C27_ActiveIffClaimable ==
    \A tokenId \in RegisteredIds, d \in Descriptions \ {""} :
        /\ isWarrantyActive(tokenId).err = "OK"
        /\ isWarrantyActive(tokenId).ret
               <=> submitWarrantyClaimErr(owners[tokenId], tokenId, d) = "OK"

\* At the very time its warranty expires a product with one claim left is
\* active and claimable, while another product is neither.
C27_Witness ==
    \E t, u \in RegisteredIds :
        /\ now = productDetails[t].warrantyExpiration
        /\ productDetails[t].warrantyClaimCount = 1
        /\ isWarrantyActive(t).ret
        /\ submitWarrantyClaimErr(owners[t], t, "broken") = "OK"
        /\ ~isWarrantyActive(u).ret
        /\ submitWarrantyClaimErr(owners[u], u, "broken") # "OK"

\* --------------------------------------------------------------------- C28
\* The claim ids under which a claim is stored.
C28_StoredClaims == {c \in ClaimIds : warrantyClaims[c].tokenId # 0}

\* C28: in every state, for every registered product, warrantyClaimCount is
\* the number of stored claims whose tokenId is that product, every stored
\* claim is a claim of a registered product, and the number of stored
\* claims is the next claim id - 1.
C28_CountMatchesClaims ==
    /\ \A tokenId \in RegisteredIds :
           productDetails[tokenId].warrantyClaimCount
               = Cardinality({c \in C28_StoredClaims : warrantyClaims[c].tokenId = tokenId})
    /\ \A c \in C28_StoredClaims : warrantyClaims[c].tokenId \in RegisteredIds
    /\ Cardinality(C28_StoredClaims) = claimIdCounter - 1

\* Two products are registered; one has two stored claims, the other none.
C28_Witness ==
    \E t, u \in RegisteredIds :
        /\ productDetails[t].warrantyClaimCount = 2
        /\ productDetails[u].warrantyClaimCount = 0
        /\ claimIdCounter = 3
        /\ Cardinality(C28_StoredClaims) = 2

\* --------------------------------------------------------------------- C29
\* C29: when RETAILER_ROLE membership does not change after the first
\* registration (SpecFixedRetailers), in every state every registered
\* product whose warranty is unactivated is owned by a holder of
\* RETAILER_ROLE; put the other way, every product owned by a non-retailer
\* has warrantyStart # 0.
C29_UnactivatedHeldByRetailer ==
    /\ \A tokenId \in RegisteredIds :
           productDetails[tokenId].warrantyStart = 0
               => _ownerOf(owners, tokenId) \in roles[RETAILER_ROLE]
    /\ \A tokenId \in RegisteredIds :
           _ownerOf(owners, tokenId) \notin roles[RETAILER_ROLE]
               => productDetails[tokenId].warrantyStart # 0

\* Two products are registered to the one retailer; the last call sold one
\* of them to a customer, which activated its warranty, and the other is
\* unactivated and with the retailer still.
C29_Witness ==
    /\ last.op = "transferFrom"
    /\ \E t, u \in RegisteredIds :
        /\ productDetails[t].warrantyStart = 0
        /\ _ownerOf(owners, t) \in roles[RETAILER_ROLE]
        /\ _ownerOf(owners, u) \notin roles[RETAILER_ROLE]
        /\ productDetails[u].warrantyStart # 0
        /\ last.args[3] = u

\* --------------------------------------------------------------------- C30
\* C30: for every registered product, in every state and at every time,
\* the isValid value checkWarranty computes from the fetched record is the
\* value isWarrantyActive returns for that record at that time: for
\* unactivated products, at now = warrantyExpiration and when
\* warrantyClaimCount has reached warrantyClaimLimit too.
C30_ClientAgreesWithLedger ==
    \A tokenId \in RegisteredIds : \A millis \in Millis :
        /\ checkWarranty(tokenId, millis).err = "OK"
        /\ checkWarranty(tokenId, millis).isValid = isWarrantyActive(tokenId).ret

\* The two ways the values differ: in the last second of the warranty the
\* ledger says active and the client says invalid; a product whose claims
\* are used up before the expiration is inactive on the ledger and valid
\* for the client.
C30_LastSecond ==
    \E tokenId \in RegisteredIds :
        /\ now = productDetails[tokenId].warrantyExpiration
        /\ isWarrantyActive(tokenId).ret
        /\ \A millis \in Millis : ~checkWarranty(tokenId, millis).isValid

C30_ClaimsUsedUp ==
    \E tokenId \in RegisteredIds :
        /\ productDetails[tokenId].warrantyStart # 0
        /\ now < productDetails[tokenId].warrantyExpiration
        /\ productDetails[tokenId].warrantyClaimCount
               >= productDetails[tokenId].warrantyClaimLimit
        /\ ~isWarrantyActive(tokenId).ret
        /\ \A millis \in Millis : checkWarranty(tokenId, millis).isValid

\* For unactivated products the two values agree: both are false.
C30_UnactivatedAgree ==
    \A tokenId \in RegisteredIds : \A millis \in Millis :
        productDetails[tokenId].warrantyStart = 0
            => /\ ~checkWarranty(tokenId, millis).isValid
               /\ ~isWarrantyActive(tokenId).ret

\* --------------------------------------------------------------------- C31
\* C31: under every interleaving of the hook's calls (SpecTransaction),
\* isProcessing is true whenever an operation started through execute has
\* not settled, two overlapping execute calls included, and it is false
\* once every started operation has resolved or thrown.
C31_IsProcessingTracksPending ==
    /\ PendingCalls # {} => isProcessing
    /\ (PendingCalls = {} /\ \E c \in CallIds : calls[c].pc # "idle") => ~isProcessing

\* Two execute calls overlap and the first has settled: its result is
\* stored, the second is pending still and isProcessing is false.
C31_OverlapClearsFlag ==
    /\ calls[1].pc \in {"returned", "thrown"}
    /\ calls[2].pc = "pending"
    /\ calls[3].pc = "idle"
    /\ ~isProcessing

\* With nothing pending the flag is false: after the last started
\* operation settles, isProcessing is false.
C31_FalseWhenNothingPending ==
    PendingCalls = {} => ~isProcessing

====
